---- MODULE Spec2Model ----
(***************************************************************************)
(* A model of knowledge_repo/converters/html.py: the front-matter          *)
(* preprocessor, the indented-block-as-cell-output block processor and the *)
(* HTMLConverter (to_string, render_headers, apply_url_remapping and the   *)
(* image-embedding URL mapper).                                            *)
(*                                                                         *)
(* Python strings are modelled as sequences of one-character strings, so   *)
(* that strip, startswith, `in', join and the regular expressions are      *)
(* computed character by character.                                        *)
(***************************************************************************)
EXTENDS Integers, Sequences, FiniteSets, TLC

VARIABLES
    \* KnowledgeMetaPreprocessor
    lines,        \* the list of lines handed to run
    metaOut,      \* what run returned (or raised)
    \* IndentsAsCellOutputProcessor
    children,     \* the children of the parent element, in document order
    blocks,       \* the parser's master list of pending blocks
    runBlocks,    \* history: de-indented blocks of the current consecutive run
    runStart,     \* history: Len(children) when the current run started
    \* HTMLConverter
    headers,      \* self.kp.headers
    body,         \* the HTML the markdown engine renders for self.kp.read()
    kp_images,    \* self.kp_images
    callerList,   \* a list object the caller owns and passes as urlmappers
    defaultList,  \* the list object bound to the default urlmappers=[]
    result,       \* what the last to_string call returned (or raised)
    lastCall,     \* the arguments of the last to_string call
    calls,        \* history: one record per img/a match of the last call
    ncalls,       \* history: number of to_string calls so far
    headers0,     \* history: the headers before the first call
    callerList0,  \* history: the caller's list before the first call
    lastMap       \* the last direct base64_encode_image_mapper call

metaVars   == <<lines, metaOut>>
indentVars == <<children, blocks, runBlocks, runStart>>
convVars   == <<headers, body, kp_images, callerList, defaultList, result,
                lastCall, calls, ncalls, headers0, callerList0, lastMap>>
vars       == <<metaVars, indentVars, convVars>>

----------------------------------------------------------------------------
(* Bounds *)
MaxLines   == 3      \* lines handed to the preprocessor
MaxBlocks  == 3      \* blocks in the parser's list
MaxMappers == 2      \* mappers in the caller's list
MaxCalls   == 2      \* to_string calls on one converter

----------------------------------------------------------------------------
(* Python values and strings *)
None       == [kind |-> "None"]
Some(v)    == [kind |-> "some", value |-> v]
Pending    == [kind |-> "pending"]
Ok(v)      == [kind |-> "ok", value |-> v]
Raise(e)   == [kind |-> "raise", exc |-> e]

Whitespace == {" ", "\t", "\n", "\r"}

RECURSIVE lstrip(_)
lstrip(s) == IF s # <<>> /\ Head(s) \in Whitespace THEN lstrip(Tail(s)) ELSE s

RECURSIVE rstrip(_)
rstrip(s) ==
    IF s # <<>> /\ s[Len(s)] \in Whitespace
    THEN rstrip(SubSeq(s, 1, Len(s) - 1)) ELSE s

strip(s) == rstrip(lstrip(s))

\* s[p:].startswith(t), with p counted from 1
StartsWithAt(s, p, t) ==
    /\ p >= 1
    /\ p + Len(t) - 1 <= Len(s)
    /\ \A i \in 1..Len(t) : s[p + i - 1] = t[i]

startswith(s, t) == StartsWithAt(s, 1, t)

\* t in s
Contains(s, t) == \E p \in 1..(Len(s) + 1) : StartsWithAt(s, p, t)

RECURSIVE join(_, _)
join(sep, parts) ==
    IF parts = <<>> THEN <<>>
    ELSE IF Len(parts) = 1 THEN parts[1]
    ELSE parts[1] \o sep \o join(sep, Tail(parts))

\* s.split('\n')
RECURSIVE splitlines(_)
splitlines(s) ==
    IF \A i \in 1..Len(s) : s[i] # "\n" THEN <<s>>
    ELSE LET k == CHOOSE i \in 1..Len(s) :
                      s[i] = "\n" /\ \A j \in 1..(i - 1) : s[j] # "\n"
         IN  <<SubSeq(s, 1, k - 1)>> \o splitlines(SubSeq(s, k + 1, Len(s)))

Min(S) == CHOOSE x \in S : \A y \in S : x <= y

SeqsUpTo(S, n) == UNION { [1..k -> S] : k \in 0..n }

----------------------------------------------------------------------------
(* KnowledgeMetaPreprocessor.run *)

Delimiter == <<"-","-","-">>

\* Line 93 comparing the line itself, without strip
IsDelimiterNoStrip(line) == line = Delimiter

IsDelimiter(line) == strip(line) = Delimiter

\* The for loop over enumerate(lines), entered at index i (from 1) with cnt
\* delimiters seen before it; the value is the index the loop leaves in i.
RECURSIVE MetaLoop(_, _, _)
MetaLoop(ls, i, cnt) ==
    LET cnt2 == IF IsDelimiter(ls[i]) THEN cnt + 1 ELSE cnt
    IN  IF cnt2 = 2 THEN i
        ELSE IF i = Len(ls) THEN i
        ELSE MetaLoop(ls, i + 1, cnt2)

\* run handing the lines on untouched when there is no front matter
KnowledgeMetaPreprocessor_run_keep(ls) ==
    IF ls = <<>> THEN Raise("UnboundLocalError")
    ELSE IF Cardinality({i \in 1..Len(ls) : IsDelimiter(ls[i])}) < 2 THEN Ok(ls)
    ELSE Ok(SubSeq(ls, MetaLoop(ls, 1, 0) + 1, Len(ls)))

\* With no line at all the loop never binds i and `lines[i + 1:]' raises.
KnowledgeMetaPreprocessor_run(ls) ==
    IF ls = <<>> THEN Raise("UnboundLocalError")
    ELSE Ok(SubSeq(ls, MetaLoop(ls, 1, 0) + 1, Len(ls)))

MetaLineSet == { <<"-","-","-">>, <<"-","-","-"," ">>, <<"\t","-","-","-">>, <<"-","-">>, <<"a">>, <<>> }

MetaInit ==
    /\ lines \in SeqsUpTo(MetaLineSet, MaxLines)
    /\ metaOut = Pending

MetaRun ==
    /\ metaOut = Pending
    /\ metaOut' = KnowledgeMetaPreprocessor_run(lines)
    /\ UNCHANGED lines

----------------------------------------------------------------------------
(* IndentsAsCellOutputProcessor *)

\* ' ' * self.tab_length, with the markdown engine's tab length of four
Tab == <<" "," "," "," ">>

NoElement == [tag |-> "None"]

\* An element of the tree: text is a string, atomic says it is an AtomicString
Element(tag, class, text, atomic) ==
    [tag |-> tag, class |-> class, text |-> text, atomic |-> atomic]

lastChild(ch) == IF ch = <<>> THEN NoElement ELSE ch[Len(ch)]

test(block) == startswith(block, Tab)

\* BlockProcessor.detab: the leading lines that are indented (de-indented) or
\* blank, and the lines from the first other line on.
RECURSIVE detabLines(_)
detabLines(ls) ==
    IF ls = <<>> THEN <<>>
    ELSE IF startswith(Head(ls), Tab)
         THEN <<SubSeq(Head(ls), Len(Tab) + 1, Len(Head(ls)))>> \o detabLines(Tail(ls))
    ELSE IF strip(Head(ls)) = <<>> THEN << <<>> >> \o detabLines(Tail(ls))
    ELSE <<>>

detab(text) ==
    LET ls      == splitlines(text)
        newtext == detabLines(ls)
    IN  <<join(<<"\n">>, newtext), join(<<"\n">>, SubSeq(ls, Len(newtext) + 1, Len(ls)))>>

HtmlTokens == { <<"<","d","i","v"," ">>, <<"<","/">>, <<"<","s","p","a","n"," ">> }

looks_like_html(block) == \E t \in HtmlTokens : Contains(block, t)

\* Line 59 without the AtomicString test
merged_is_htmlIgnoringSibling(is_html, sibling) == is_html

\* block_is_html once a div sibling is found (line 59)
merged_is_html(is_html, sibling) == is_html /\ ~sibling.atomic

\* Line 61 appending the block with nothing in between
MergeTextNoNewline(siblingText, block) == siblingText \o block

\* '\n'.join([sibling.text, block]) (line 61)
MergeText(siblingText, block) == join(<<"\n">>, <<siblingText, block>>)

CodeOutput == <<"c","o","d","e","-","o","u","t","p","u","t">>

\* The processor's run: the children and the block list it leaves.
IndentsAsCellOutputProcessor_run(ch, bl) ==
    LET sibling  == lastChild(ch)
        dt       == detab(Head(bl))
        block0   == rstrip(dt[1])
        theRest  == dt[2]
        html0    == looks_like_html(block0)
        merge    == sibling # NoElement /\ sibling.tag = "div"
        is_html  == IF merge THEN merged_is_html(html0, sibling) ELSE html0
        block    == IF merge THEN MergeText(sibling.text, block0) ELSE block0
        output0  == IF merge THEN sibling
                    ELSE Element("div", CodeOutput, <<>>, FALSE)
        class    == IF ~is_html /\ ~Contains(output0.class, <<"p","r","e">>)
                    THEN join(<<" ">>, <<output0.class, <<"p","r","e">>>>)
                    ELSE output0.class
        output   == Element("div", class, block \o <<"\n">>, ~is_html)
    IN  [children |-> IF merge THEN [ch EXCEPT ![Len(ch)] = output]
                      ELSE Append(ch, output),
         blocks   |-> IF theRest # <<>> THEN <<theRest>> \o Tail(bl) ELSE Tail(bl),
         block    |-> block0]

BlockSet ==
    { <<" "," "," "," ","a","b">>, <<" "," "," "," ","<","/","b",">">>, <<" "," "," "," ","<","d","i","v"," ","\n"," "," "," "," ","x">>, <<" "," "," "," ","<","d","i","v"," ">>,
      <<" "," "," "," ","a","\n","b">>, <<"p">> }

Paragraph(text) == Element("p", <<>>, text, FALSE)

IndentInit ==
    /\ blocks \in SeqsUpTo(BlockSet, MaxBlocks)
    /\ children \in { <<>>, <<Paragraph(<<"p">>)>> }
    /\ runBlocks = <<>>
    /\ runStart = Len(children)

\* The parser hands the first pending block to this processor when test accepts it
IndentRun ==
    /\ blocks # <<>>
    /\ test(Head(blocks))
    /\ LET r == IndentsAsCellOutputProcessor_run(children, blocks)
       IN  /\ children' = r.children
           /\ blocks' = r.blocks
           /\ runBlocks' = Append(runBlocks, r.block)
    /\ UNCHANGED runStart

\* ... and to the engine's paragraph processor otherwise, which ends the run
ParagraphRun ==
    /\ blocks # <<>>
    /\ ~test(Head(blocks))
    /\ children' = Append(children, Paragraph(Head(blocks)))
    /\ blocks' = Tail(blocks)
    /\ runBlocks' = <<>>
    /\ runStart' = Len(children')

----------------------------------------------------------------------------
(* HTMLConverter.base64_encode_image_mapper *)

B64Alphabet ==
    <<"A","B","C","D","E","F","G","H","I","J","K","L","M","N","O","P","Q","R","S","T","U","V","W","X","Y","Z","a","b","c","d","e","f","g","h","i","j","k","l","m","n","o","p","q","r","s","t","u","v","w","x","y","z","0","1","2","3","4","5","6","7","8","9","+","/">>

B64Char(n) == B64Alphabet[n + 1]

\* base64.b64encode over a sequence of bytes (integers in 0..255)
RECURSIVE b64encode(_)
b64encode(bytes) ==
    IF bytes = <<>> THEN <<>>
    ELSE LET k  == IF Len(bytes) >= 3 THEN 3 ELSE Len(bytes)
             b1 == bytes[1]
             b2 == IF k >= 2 THEN bytes[2] ELSE 0
             b3 == IF k >= 3 THEN bytes[3] ELSE 0
             n  == b1 * 65536 + b2 * 256 + b3
             c1 == B64Char(n \div 262144)
             c2 == B64Char((n \div 4096) % 64)
             c3 == IF k >= 2 THEN B64Char((n \div 64) % 64) ELSE "="
             c4 == IF k >= 3 THEN B64Char(n % 64) ELSE "="
         IN  <<c1, c2, c3, c4>> \o b64encode(SubSeq(bytes, k + 1, Len(bytes)))

endswith(s, t) == Len(t) <= Len(s) /\ SubSeq(s, Len(s) - Len(t) + 1, Len(s)) = t

\* mimetypes.guess_type(url)[0]: decided by the extension of the name
guess_type(url) ==
    IF endswith(url, <<".","p","n","g">>) THEN Some(<<"i","m","a","g","e","/","p","n","g">>)
    ELSE IF endswith(url, <<".","j","p","g">>) THEN Some(<<"i","m","a","g","e","/","j","p","e","g">>)
    ELSE None

\* 'data:{};base64, '.format(image_mimetype) + image_data (line 204)
DataUri(mimetype, data) == <<"d","a","t","a",":">> \o mimetype \o <<";","b","a","s","e","6","4",","," ">> \o data

base64_encode_image_mapper(images, tag, url) ==
    IF tag = "img" /\ url \in DOMAIN images /\ guess_type(url) # None
    THEN Some(DataUri(guess_type(url).value, b64encode(images[url])))
    ELSE None

ImageUrls  == { <<"a",".","p","n","g">>, <<"b",".","j","p","g">>, <<"c",".","x">>, <<"u">> }
ImageBlobs == { <<77>>, <<1, 2, 3, 250>> }
TagNames   == { "img", "a" }

\* A mapping from some of the urls to image bytes
ImageMappings ==
    UNION { [D -> ImageBlobs] : D \in SUBSET ImageUrls }

ImageInit ==
    /\ kp_images \in ImageMappings
    /\ lastMap = Pending

ImageMapperCall ==
    /\ \E tag \in TagNames, url \in ImageUrls :
           lastMap' = [tag |-> tag, url |-> url,
                       out |-> base64_encode_image_mapper(kp_images, tag, url)]
    /\ UNCHANGED kp_images

----------------------------------------------------------------------------
(* URL mappers: functions of a tag name and a url that return a url or None *)

\* The caller's mappers of the model, and the bound image-embedding mapper
CallerMappers == { "none", "cdn", "img2" }
ImageMapper   == "b64"

ApplyMapper(m, images, tag, url) ==
    CASE m = ImageMapper -> base64_encode_image_mapper(images, tag, url)
      [] m = "none"      -> None
      [] m = "cdn"       -> Some(<<"c","/">> \o url)
      [] m = "img2"      -> IF tag = "img" THEN Some(<<"z">>) ELSE None

----------------------------------------------------------------------------
(* HTMLConverter.apply_url_remapping *)

Quotes == { "'", "\"" }

\* `.' of the regular expressions matches any character but a newline
NoNewline(s, a, b) == \A i \in a..b : s[i] # "\n"

NoMatch == [found |-> FALSE]

\* One attempt of  <open>.*?<attr>['"](?P<url>.*?)['"].*?>  at position p of s.
\* Each lazy quantifier takes the shortest stretch for which the rest matches.
MatchAt(s, p, open, attr) ==
    LET n       == Len(s)
        from    == p + Len(open)
        Ends(ue) == { e \in (ue + 1)..n : s[e] = ">" /\ NoNewline(s, ue + 1, e - 1) }
        UrlEnds(us) ==
            { ue \in us..n : /\ s[ue] \in Quotes
                            /\ NoNewline(s, us, ue - 1)
                            /\ Ends(ue) # {} }
        Attrs   == { q \in from..n : /\ StartsWithAt(s, q, attr)
                                    /\ q + Len(attr) <= n
                                    /\ s[q + Len(attr)] \in Quotes
                                    /\ NoNewline(s, from, q - 1)
                                    /\ UrlEnds(q + Len(attr) + 1) # {} }
    IN  IF ~StartsWithAt(s, p, open) \/ Attrs = {} THEN NoMatch
        ELSE LET q  == Min(Attrs)
                 us == q + Len(attr) + 1
                 ue == Min(UrlEnds(us))
                 e  == Min(Ends(ue))
             IN  [found |-> TRUE, start |-> p, end |-> e,
                  urlStart |-> us, urlEnd |-> ue - 1]

\* The non-overlapping matches of the pattern in s from position p on, leftmost first
RECURSIVE FindAll(_, _, _, _)
FindAll(s, p, open, attr) ==
    LET Starts == { q \in p..Len(s) : MatchAt(s, q, open, attr).found }
    IN  IF Starts = {} THEN <<>>
        ELSE LET m == MatchAt(s, Min(Starts), open, attr)
             IN  <<m>> \o FindAll(s, m.end + 1, open, attr)

\* re.sub('(src|href)=[\'"](?:.*?)[\'"]', '\\1="{}"'.format(new_url), text),
\* scanning text from position p on (line 170)
RECURSIVE ReplaceAttrs(_, _, _)
ReplaceAttrs(text, p, new_url) ==
    IF p > Len(text) THEN <<>>
    ELSE LET Names  == { a \in { <<"s","r","c","=">>, <<"h","r","e","f","=">> } :
                           /\ StartsWithAt(text, p, a)
                           /\ p + Len(a) <= Len(text)
                           /\ text[p + Len(a)] \in Quotes }
             Closes(a) == { e \in (p + Len(a) + 1)..Len(text) :
                              /\ text[e] \in Quotes
                              /\ NoNewline(text, p + Len(a) + 1, e - 1) }
         IN  IF \E a \in Names : Closes(a) # {}
             THEN LET a == CHOOSE a \in Names : Closes(a) # {}
                  IN  a \o <<"\"">> \o new_url \o <<"\"">>
                        \o ReplaceAttrs(text, Min(Closes(a)) + 1, new_url)
             ELSE <<text[p]>> \o ReplaceAttrs(text, p + 1, new_url)

\* The for loop of urlmapper_proxy from mapper i on (lines 165-168): the value
\* new_url is left with and the mappers that were called.
RECURSIVE MapperLoop(_, _, _, _, _)
MapperLoop(urlmappers, i, images, name, url) ==
    LET new_url == ApplyMapper(urlmappers[i], images, name, url)
    IN  IF new_url # None \/ i = Len(urlmappers)
        THEN [new_url |-> new_url, consulted |-> SubSeq(urlmappers, 1, i)]
        ELSE MapperLoop(urlmappers, i + 1, images, name, url)

\* urlmapper_proxy(name, match) for a match with text `text' and url group
\* `url': with no mapper the loop never binds new_url and line 169 raises.
urlmapper_proxy(urlmappers, images, name, text, url) ==
    IF urlmappers = <<>>
    THEN [out |-> Raise("UnboundLocalError"), new_url |-> None, consulted |-> <<>>]
    ELSE LET l == MapperLoop(urlmappers, 1, images, name, url)
         IN  [out       |-> IF l.new_url # None
                            THEN Some(ReplaceAttrs(text, 1, l.new_url.value))
                            ELSE None,
              new_url   |-> l.new_url,
              consulted |-> l.consulted]

\* What the substitution replaces each match by: the mapper's answer, or the
\* matched text itself when the mapper answers None.
RECURSIVE SubstituteFrom(_, _, _, _)
SubstituteFrom(s, p, matches, outs) ==
    IF matches = <<>> THEN SubSeq(s, p, Len(s))
    ELSE LET m == Head(matches)
             o == Head(outs)
         IN  SubSeq(s, p, m.start - 1)
               \o (IF o = None THEN SubSeq(s, m.start, m.end) ELSE o.value)
               \o SubstituteFrom(s, m.end + 1, Tail(matches), Tail(outs))

\* The record of one match: what urlmapper_proxy was given and what it answered
MatchEntry(s, m, urlmappers, images, name) ==
    LET text == SubSeq(s, m.start, m.end)
        url  == SubSeq(s, m.urlStart, m.urlEnd)
        Entry(r) ==
            [tag |-> name, text |-> text, url |-> url,
             before |-> SubSeq(s, m.start, m.urlStart - 1),
             after  |-> SubSeq(s, m.urlEnd + 1, m.end),
             mappers |-> urlmappers, consulted |-> r.consulted,
             new_url |-> r.new_url, out |-> r.out]
    IN  Entry(urlmapper_proxy(urlmappers, images, name, text, url))

SubstituteMatches(s, matches, log) ==
    LET raising == { i \in 1..Len(log) : log[i].out.kind = "raise" }
    IN  IF raising # {}
        THEN [result |-> log[Min(raising)].out, log |-> SubSeq(log, 1, Min(raising))]
        ELSE [result |-> Ok(SubstituteFrom(s, 1, matches,
                                           [i \in 1..Len(log) |-> log[i].out])),
              log    |-> log]

SubstituteLogged(s, matches, urlmappers, images, name) ==
    SubstituteMatches(s, matches,
        [i \in 1..Len(matches) |-> MatchEntry(s, matches[i], urlmappers, images, name)])

\* SubstitutionMapper.apply for one pattern: every match is handed to
\* urlmapper_proxy in turn; an exception of the mapper ends the substitution.
SubstitutePattern(s, urlmappers, images, name, open, attr) ==
    SubstituteLogged(s, FindAll(s, 1, open, attr), urlmappers, images, name)

RemapLinks(img, urlmappers, images) ==
    LET Both(a) == [result |-> a.result, log |-> img.log \o a.log]
    IN  IF img.result.kind = "raise" THEN img
        ELSE Both(SubstitutePattern(img.result.value, urlmappers, images,
                                    "a", <<"<","a">>, <<"h","r","e","f","=">>))

\* apply_url_remapping: the img pattern, then the a pattern on its result
apply_url_remapping(html, urlmappers, images) ==
    RemapLinks(SubstitutePattern(html, urlmappers, images, "img", <<"<","i","m","g">>, <<"s","r","c","=">>),
               urlmappers, images)

----------------------------------------------------------------------------
(* HTMLConverter.render_headers and to_string *)

Digit(n) == <<"0","1","2","3","4","5","6","7","8","9">>[n + 1]

\* date.isoformat(): YYYY-MM-DD
isoformat(d) ==
    <<Digit(d.y \div 1000), Digit((d.y \div 100) % 10),
      Digit((d.y \div 10) % 10), Digit(d.y % 10)>>
      \o <<"-">> \o <<Digit(d.m \div 10), Digit(d.m % 10)>>
      \o <<"-">> \o <<Digit(d.d \div 10), Digit(d.d % 10)>>

\* markdown.Markdown(...).convert on a one-line text: a line that is already a
\* block-level element passes through, any other becomes a paragraph (raw
\* inline markup is kept as it is).
MarkdownConvert(text) ==
    IF startswith(text, <<"<","p",">">>) THEN text ELSE <<"<","p",">">> \o text \o <<"<","/","p",">">>

\* h with h[key] set to value, the key added when it is missing
SetItem(h, key, value) == (key :> value) @@ h

\* render_headers: `headers = self.kp.headers' is the post's own mapping, so
\* the four assignments change the post; the value is the mapping it leaves
\* and the header block.
render_headers(h) ==
    LET h1 == SetItem(h, "authors_string", join(<<","," ">>, h.authors))
        h2 == SetItem(h1, "tldr", MarkdownConvert(h1.tldr))
        h3 == SetItem(h2, "date_created", isoformat(h2.created_at))
        h4 == SetItem(h3, "date_updated", isoformat(h3.updated_at))
    IN  [headers |-> h4,
         html |->
           <<"\n","<","h","1",">">> \o h4.title \o <<"<","/","h","1",">","\n","<","p"," ","i","d","=","'","m","e","t","a","d","a","t","a","'",">","\n","<","s","t","r","o","n","g",">","A","u","t","h","o","r","<","/","s","t","r","o","n","g",">",":"," ">>
           \o h4.authors_string \o <<" ","<","b","r",">","\n","<","s","t","r","o","n","g",">","D","a","t","e"," ","C","r","e","a","t","e","d","<","/","s","t","r","o","n","g",">",":"," ">>
           \o h4.date_created \o <<"<","b","r",">","\n","<","s","t","r","o","n","g",">","D","a","t","e"," ","U","p","d","a","t","e","d","<","/","s","t","r","o","n","g",">",":"," ">>
           \o h4.date_updated
           \o <<"<","b","r",">","\n","<","s","t","r","o","n","g",">","T","a","g","s","<","/","s","t","r","o","n","g",">","<","t","e","x","t",">",":"," ","<","/","t","e","x","t",">","<","b","r",">","\n","<","s","t","r","o","n","g",">","T","L","D","R","<","/","s","t","r","o","n","g",">",":"," ">>
           \o h4.tldr \o <<"<","b","r",">","\n","<","/","p",">","\n">>]

\* Lines 142-144 without the copy: the insert lands in the list passed in
PrepareMappersNoCopy(arg, images_base64_encode) ==
    LET l == IF images_base64_encode THEN <<ImageMapper>> \o arg ELSE arg
    IN  [local |-> l, arg |-> l]

\* Lines 142-144: urlmappers[:] and the insert at the front of the copy.
\* local is the list the call goes on with, arg the list object passed in.
PrepareMappers(arg, images_base64_encode) ==
    [local |-> IF images_base64_encode THEN <<ImageMapper>> \o arg ELSE arg,
     arg   |-> arg]

\* '<a href="{0}">Linked Post</a>\n<iframe ... src="{0}"></iframe>'.format(url)
ProxyHtml(url) ==
    <<"<","a"," ","h","r","e","f","=","\"">> \o url \o <<"\"",">","L","i","n","k","e","d"," ","P","o","s","t","<","/","a",">","\n","<","i","f","r","a","m","e"," ","w","i","d","t","h","=","1","0","0","%"," ","h","e","i","g","h","t","=","8","0","0"," ","s","r","c","=","\"">>
      \o url \o <<"\"",">","<","/","i","f","r","a","m","e",">">>

\* to_string: what it returns or raises, the headers and the passed list it
\* leaves, the html handed to apply_url_remapping and the record of the matches
to_string(h, rendered, images, skip_headers, images_base64_encode, urlmappers) ==
    LET um == PrepareMappers(urlmappers, images_base64_encode)
    IN  IF "proxy" \in DOMAIN h
        THEN [result |-> Ok(ProxyHtml(strip(h.proxy))), headers |-> h,
              arg |-> um.arg, local |-> um.local, html |-> <<>>, log |-> <<>>]
        ELSE LET rh   == IF skip_headers THEN [headers |-> h, html |-> <<>>]
                         ELSE render_headers(h)
                 html == rh.html \o rendered
                 r    == apply_url_remapping(html, um.local, images)
             IN  [result |-> r.result, headers |-> rh.headers,
                  arg |-> um.arg, local |-> um.local, html |-> html, log |-> r.log]

----------------------------------------------------------------------------
(* The posts and calls of the model *)

Date(y, m, d) == [y |-> y, m |-> m, d |-> d]

BaseHeaders(tldr) ==
    [title |-> <<"T">>, authors |-> <<<<"a","n","n">>, <<"b","o">>>>, tldr |-> tldr,
     created_at |-> Date(2017, 1, 9), updated_at |-> Date(2017, 12, 30)]

\* Bodies as the markdown engine renders them
RenderedBodies ==
    { <<"<","p",">","h","i","<","/","p",">">>,
      <<"<","p",">","<","i","m","g"," ","a","l","t","=","\"","i","\""," ","s","r","c","=","\"","a",".","p","n","g","\""," ","/",">","<","/","p",">">>,
      <<"<","p",">","<","a"," ","h","r","e","f","=","\"","u","\"",">","<","i","m","g"," ","s","r","c","=","\"","a",".","p","n","g","\""," ","/",">","<","/","a",">","<","/","p",">">>,
      <<"<","i","m","g"," ","s","r","c","=","\"","a",".","p","n","g","\""," ","d","a","t","a","-","s","r","c","=","\"","b","\"",">">> }

PostImages == { <<>>, (<<"a",".","p","n","g">> :> <<77>>) @@ (<<"u">> :> <<1, 2, 3, 250>>) }

Post(h, b, i) == [headers |-> h, body |-> b, images |-> i]

Posts ==
    { Post(BaseHeaders(<<"a","b">>), b, i) : b \in RenderedBodies, i \in PostImages }
      \cup { Post(BaseHeaders(<<"<","a"," ","h","r","e","f","=","\"","u","\"",">","t","<","/","a",">">>), <<"<","p",">","h","i","<","/","p",">">>, i) : i \in PostImages }
      \cup { Post(SetItem(BaseHeaders(<<"a","b">>), "proxy", <<" ","x","\n">>),
                  <<"<","p",">","<","a"," ","h","r","e","f","=","\"","u","\"",">","<","i","m","g"," ","s","r","c","=","\"","a",".","p","n","g","\""," ","/",">","<","/","a",">","<","/","p",">">>, <<>>) }

ConvInit ==
    /\ \E post \in Posts :
           /\ headers = post.headers
           /\ body = post.body
           /\ kp_images = post.images
    /\ callerList \in SeqsUpTo(CallerMappers, MaxMappers)
    /\ defaultList = <<>>
    /\ result = Pending
    /\ lastCall = Pending
    /\ calls = <<>>
    /\ ncalls = 0
    /\ headers0 = headers
    /\ callerList0 = callerList

\* converter.to_string(skip_headers, images_base64_encode) with urlmappers
\* omitted (the default list is used) or the caller's list passed
ToStringWith(skip_headers, images_base64_encode, omitted) ==
    /\ ncalls < MaxCalls
    /\ \E r \in { to_string(headers, body, kp_images, skip_headers,
                            images_base64_encode,
                            IF omitted THEN defaultList ELSE callerList) } :
           /\ result' = r.result
           /\ headers' = r.headers
           /\ defaultList' = IF omitted THEN r.arg ELSE defaultList
           /\ callerList' = IF omitted THEN callerList ELSE r.arg
           /\ calls' = r.log
           /\ lastCall' = [kind |-> "to_string", skip_headers |-> skip_headers,
                           images_base64_encode |-> images_base64_encode,
                           omitted |-> omitted, proxy |-> "proxy" \in DOMAIN headers,
                           urlmappers |-> r.local, html |-> r.html]
    /\ ncalls' = ncalls + 1
    /\ UNCHANGED <<body, kp_images, headers0, callerList0>>

ToStringCall ==
    \E skip_headers \in BOOLEAN, images_base64_encode \in BOOLEAN, omitted \in BOOLEAN :
        ToStringWith(skip_headers, images_base64_encode, omitted)

----------------------------------------------------------------------------
(* Specifications: one per component; the other components stay idle *)

MetaIdle == lines = <<>> /\ metaOut = Pending

IndentIdle ==
    children = <<>> /\ blocks = <<>> /\ runBlocks = <<>> /\ runStart = 0

ConvIdle ==
    /\ headers = << >> /\ body = <<>> /\ kp_images = <<>>
    /\ callerList = <<>> /\ defaultList = <<>> /\ result = Pending
    /\ lastCall = Pending /\ calls = <<>> /\ ncalls = 0
    /\ headers0 = <<>> /\ callerList0 = <<>>

\* The converter
Init == ConvInit /\ lastMap = Pending /\ MetaIdle /\ IndentIdle

Next == ToStringCall /\ UNCHANGED <<lastMap, metaVars, indentVars>>

Spec == Init /\ [][Next]_vars

\* The front-matter preprocessor
InitMeta == MetaInit /\ ConvIdle /\ lastMap = Pending /\ IndentIdle

NextMeta == MetaRun /\ UNCHANGED <<indentVars, convVars>>

SpecMeta == InitMeta /\ [][NextMeta]_vars

\* The indented-block processor inside the block parser's loop
InitIndent == IndentInit /\ MetaIdle /\ ConvIdle /\ lastMap = Pending

NextIndent ==
    \/ IndentRun /\ UNCHANGED <<metaVars, convVars>>
    \/ ParagraphRun /\ UNCHANGED <<metaVars, convVars>>

SpecIndent == InitIndent /\ [][NextIndent]_vars

\* The image-embedding mapper called on its own
InitImage ==
    /\ ImageInit /\ MetaIdle /\ IndentIdle
    /\ headers = << >> /\ body = <<>>
    /\ callerList = <<>> /\ defaultList = <<>> /\ result = Pending
    /\ lastCall = Pending /\ calls = <<>> /\ ncalls = 0
    /\ headers0 = <<>> /\ callerList0 = <<>>

NextImage ==
    ImageMapperCall
      /\ UNCHANGED <<metaVars, indentVars, headers, body, callerList, defaultList,
                     result, lastCall, calls, ncalls, headers0, callerList0>>

SpecImage == InitImage /\ [][NextImage]_vars

----------------------------------------------------------------------------
(* Claims about KnowledgeMetaPreprocessor.run (checked under SpecMeta) *)

\* The indexes of the lines whose whitespace-trimmed text is '---'
Delims == { i \in 1..Len(lines) : strip(lines[i]) = <<"-","-","-">> }

\* C7: when the input holds at least two lines whose trimmed text is '---',
\* run returns exactly the lines after the second of them, in order; the
\* earlier lines and both delimiters are dropped and later '---' lines stay.
C7_ReturnsLinesAfterSecondDelimiter ==
    (metaOut # Pending /\ Cardinality(Delims) >= 2) =>
        LET second == Min(Delims \ {Min(Delims)})
        IN  metaOut = Ok([i \in 1..(Len(lines) - second) |-> lines[second + i]])

\* run has returned for an input with a third '---' line, which it kept
C7_Witness ==
    /\ metaOut.kind = "ok"
    /\ Cardinality(Delims) = 3
    /\ \E i \in 1..Len(metaOut.value) : strip(metaOut.value[i]) = <<"-","-","-">>

\* C10: for a non-empty input with fewer than two lines whose trimmed text is
\* '---', run returns the empty list.
C10_FewerThanTwoDelimitersDropsAll ==
    (metaOut # Pending /\ lines # <<>> /\ Cardinality(Delims) < 2) =>
        metaOut = Ok(<<>>)

\* run has returned for three lines of which one is a delimiter
C10_Witness ==
    /\ metaOut = Ok(<<>>)
    /\ Len(lines) = 3
    /\ Cardinality(Delims) = 1

----------------------------------------------------------------------------
(* Claims about IndentsAsCellOutputProcessor.run (checked under SpecIndent) *)

InRun == runBlocks # <<>>

AllHtml == \A i \in 1..Len(runBlocks) : looks_like_html(runBlocks[i])

HasPre(e) == Contains(e.class, <<"p","r","e">>)

OneCodeOutputDiv ==
    /\ Len(children) = runStart + 1
    /\ lastChild(children).tag = "div"
    /\ Contains(lastChild(children).class, <<"c","o","d","e","-","o","u","t","p","u","t">>)

\* C8 as stated: one code-output div per run of consecutive indented blocks,
\* whose text is the de-indented blocks joined by a single newline character
\* (a newline closing the text is allowed for).
C8_JoinedBySingleNewline ==
    InRun =>
        /\ OneCodeOutputDiv
        /\ lastChild(children).text \in
               { join(<<"\n">>, runBlocks), join(<<"\n">>, runBlocks) \o <<"\n">> }

\* C8 amended: one code-output div per run of consecutive indented blocks;
\* after each block its text is the de-indented, right-trimmed blocks so far,
\* in order, with a blank line (two newline characters) between each pair and
\* one newline after the last.
C8_JoinedByBlankLine ==
    InRun =>
        /\ OneCodeOutputDiv
        /\ lastChild(children).text = join(<<"\n","\n">>, runBlocks) \o <<"\n">>

\* three blocks have been merged into one div
C8_Witness ==
    /\ Len(runBlocks) = 3
    /\ OneCodeOutputDiv
    /\ runBlocks[1] # runBlocks[2]

\* C9 as stated: the div's content is literal markup (not atomic, no 'pre'
\* class) exactly when the merged text holds one of the tokens; otherwise it
\* is escaped text and the class includes 'pre'.
C9_LiteralIffMergedTextHasToken ==
    InRun =>
        LET div == lastChild(children)
        IN  IF looks_like_html(div.text)
            THEN ~div.atomic /\ ~HasPre(div)
            ELSE div.atomic /\ HasPre(div)

\* C9 amended: the content is literal markup (no 'pre' class) exactly when
\* every one of the merged blocks holds one of the tokens; otherwise it is
\* escaped text and the class includes 'pre'.
C9_LiteralIffEveryBlockHasToken ==
    InRun =>
        LET div == lastChild(children)
        IN  IF AllHtml
            THEN ~div.atomic /\ ~HasPre(div)
            ELSE div.atomic /\ HasPre(div)

\* a block without a token was merged before one with a token, and the div
\* holds escaped text
C9_Witness ==
    /\ Len(runBlocks) >= 2
    /\ ~looks_like_html(runBlocks[1])
    /\ looks_like_html(runBlocks[Len(runBlocks)])
    /\ lastChild(children).atomic

----------------------------------------------------------------------------
(* Claims about HTMLConverter (checked under Spec) *)

Called == lastCall.kind = "to_string"

\* The urls of the img src and a href matches of an html text, in order
UrlsOf(s) ==
    LET Urls(ms) == [i \in 1..Len(ms) |-> SubSeq(s, ms[i].urlStart, ms[i].urlEnd)]
    IN  Urls(FindAll(s, 1, <<"<","i","m","g">>, <<"s","r","c","=">>)) \o Urls(FindAll(s, 1, <<"<","a">>, <<"h","r","e","f","=">>))

\* C1: for a post without a proxy header, to_string with
\* images_base64_encode=False and no mapper returns normally, and the img src
\* and a href urls of the html it returns are those the engine produced.
C1_NoMapperLeavesUrlsUnchanged ==
    (/\ Called
     /\ ~lastCall.proxy
     /\ ~lastCall.images_base64_encode
     /\ lastCall.urlmappers = <<>>) =>
        /\ result.kind = "ok"
        /\ UrlsOf(result.value) = UrlsOf(lastCall.html)

\* C2: a match that is rewritten differs from the matched text only in the
\* value of the one src or href attribute whose url was handed to the mappers;
\* the rest of the matched text, quote characters included, is unchanged.
C2_OnlyTheMatchedUrlChanges ==
    \A i \in 1..Len(calls) :
        calls[i].out.kind = "some" =>
            calls[i].out.value =
                calls[i].before \o calls[i].new_url.value \o calls[i].after

\* C4: to_string leaves the post's header mapping as it was before the first
\* call: the same keys with the same values.
C4_HeadersUnchanged == headers = headers0

\* The list of mappers C5 expects a call to consult: the image-embedding
\* mapper first when images_base64_encode is true, then the list passed
ExpectedMappers ==
    (IF lastCall.images_base64_encode THEN <<ImageMapper>> ELSE <<>>)
      \o (IF lastCall.omitted THEN <<>> ELSE callerList0)

\* C5: for each matched url the mappers are tried in list order (the image
\* mapper first when images_base64_encode is true, then the caller's); the
\* first answer that is not None is the replacement and no later mapper is
\* consulted; when no mapper answers, the url is left unchanged.
C5_FirstMapperWins ==
    Called =>
        \A i \in 1..Len(calls) :
            LET e    == calls[i]
                Hits == { k \in 1..Len(ExpectedMappers) :
                            ApplyMapper(ExpectedMappers[k], kp_images, e.tag, e.url) # None }
            IN  /\ e.mappers = ExpectedMappers
                /\ IF Hits = {}
                   THEN e.out = None
                   ELSE /\ e.consulted = SubSeq(ExpectedMappers, 1, Min(Hits))
                        /\ e.new_url = ApplyMapper(ExpectedMappers[Min(Hits)],
                                                   kp_images, e.tag, e.url)
                        /\ e.out.kind = "some"

\* C6: after any sequence of to_string calls the caller's list holds the same
\* mappers in the same order as before the first call, and the list bound to
\* the default of urlmappers is still empty.
C6_MapperListsNotMutated ==
    /\ callerList = callerList0
    /\ defaultList = <<>>

\* two calls were made, the last with images_base64_encode true and the
\* caller's non-empty list, and it went on with the image mapper in front
C6_Witness ==
    /\ Called
    /\ ncalls = 2
    /\ lastCall.images_base64_encode
    /\ ~lastCall.omitted
    /\ callerList # <<>>
    /\ lastCall.urlmappers = <<ImageMapper>> \o callerList

----------------------------------------------------------------------------
(* Claim about base64_encode_image_mapper (checked under SpecImage) *)

\* C3: for every tag name and url the mapper returns data:<mime>;base64,<data>
\* (the base64 text right after the comma) exactly when the url is a key of
\* the image mapping and a MIME type can be guessed; otherwise it returns None.
C3_DataUriExactlyForKnownImages ==
    lastMap # Pending =>
        IF lastMap.url \in DOMAIN kp_images /\ guess_type(lastMap.url) # None
        THEN lastMap.out = Some(<<"d","a","t","a",":">> \o guess_type(lastMap.url).value
                                  \o <<";","b","a","s","e","6","4",",">> \o b64encode(kp_images[lastMap.url]))
        ELSE lastMap.out = None

====
